---- MODULE Spec2Model ----
(***************************************************************************)
(* Model of getLibraryBooks of the discord-reminder function: the          *)
(* credential checks, the session handshake with the library portal, the   *)
(* bounded login loop, the listing fetch and the extraction of the loan    *)
(* records.  Two variants of the function are in the repository; the       *)
(* variable `variant` says which one a run executes:                       *)
(*   "part_000"  src/unnamed/part_000 (entry page, form page, login loop)  *)
(*   "index.js"  src/index.js         (login page, one POST, listing)      *)
(* Text is modelled as a sequence of one-character strings where its       *)
(* characters matter (identifier, secret) and as a set of the marker       *)
(* words a page contains where only String.includes is applied to it.      *)
(* Marker words are written in Latin letters:                              *)
(*   "logout" = the logout link text, "login" = the login text,            *)
(*   "riyoshokai" = the account-menu text, "timeout" = the timeout text.   *)
(* Around getLibraryBooks the module has createLibraryReminderMessage,     *)
(* getGarbageInfo and the entry point discordReminder, and the lines the   *)
(* code writes to the log from the identifier and the secret.              *)
(***************************************************************************)
EXTENDS Integers, Sequences, FiniteSets, TLC

VARIABLES variant, libraryId, libraryPassword, pc, trace,
          initialCookies, loginFormAction, formInputs, loginPageCookies,
          cookieString, loginSuccess, loginAttempts,
          borrowingListUrl, bookListHtml, ranExtraction, caughtError, result,
          strategies, log,
          opc, executionTime, baseDate, booksGiven, libraryMessage, finalMessage, outcome

\* the variables of getLibraryBooks
libraryVars == <<variant, libraryId, libraryPassword, pc, trace,
                 initialCookies, loginFormAction, formInputs, loginPageCookies,
                 cookieString, loginSuccess, loginAttempts,
                 borrowingListUrl, bookListHtml, ranExtraction, caughtError,
                 result, strategies, log>>

\* the variables of discordReminder and of createLibraryReminderMessage
reminderVars == <<opc, executionTime, baseDate, booksGiven, libraryMessage, finalMessage, outcome>>

vars == <<variant, libraryId, libraryPassword, pc, trace,
          initialCookies, loginFormAction, formInputs, loginPageCookies,
          cookieString, loginSuccess, loginAttempts,
          borrowingListUrl, bookListHtml, ranExtraction, caughtError, result,
          strategies, log,
          opc, executionTime, baseDate, booksGiven, libraryMessage, finalMessage, outcome>>

----------------------------------------------------------------------------
(* Bounds of the input space *)

MaxIdLen == 9
MaxPwLen == 21

(* Program constants *)

\* a loop bound that allows a third attempt
MaxLoginAttemptsPlusOne == 2 + 1

MAX_LOGIN_ATTEMPTS == 2
IdDigits == 8
MinPasswordLength == 4
MaxPasswordLength == 20
MinPasswordLengthIndex == 6
MaxPasswordLengthIndex == 15
RetryDelayMs == 3000

----------------------------------------------------------------------------
(* Text helpers *)

Rep(c, n) == [i \in 1..n |-> c]

DigitChars == {"0", "1", "2", "3", "4", "5", "6", "7", "8", "9"}

----------------------------------------------------------------------------
(* Credential checks *)

\* /^\d{8}$/.test(libraryId) without its end anchor
IdRegexTestUnanchored(s) ==
    /\ Len(s) >= IdDigits
    /\ \A i \in 1..IdDigits : s[i] \in DigitChars

\* /^\d{8}$/.test(libraryId)
IdRegexTest(s) ==
    /\ Len(s) = IdDigits
    /\ \A i \in 1..Len(s) : s[i] \in DigitChars

\* libraryPassword.length < 4 || libraryPassword.length > 20
PasswordLengthBad(s) ==
    Len(s) < MinPasswordLength \/ Len(s) > MaxPasswordLength

\* /^[A-Za-z0-9-]{6,15}$/.test(libraryPassword)
PasswordRegexTest(s) ==
    /\ Len(s) >= MinPasswordLengthIndex
    /\ Len(s) <= MaxPasswordLengthIndex
    /\ \A i \in 1..Len(s) : s[i] \in (DigitChars \cup {"a", "b", "z", "A", "Z", "-"})

\* the secret check of the variant: TRUE when the secret is rejected
PasswordRejected(v, s) ==
    IF v = "part_000" THEN PasswordLengthBad(s) ELSE ~PasswordRegexTest(s)

----------------------------------------------------------------------------
(* Error messages (the Error objects the code throws, by their message) *)

ErrIdFormat == "Library ID must be an 8-digit half-width number"
ErrPwLength == "Library password length is inappropriate"
ErrPwFormat == "Library password must be 6-15 half-width alphanumerics"
ErrLoginNoCookie == "Login failed (no cookie obtained)"
ErrLoginFailedTimes == "Login failed MAX_LOGIN_ATTEMPTS times"
ErrLoginExhausted == "Login failed (after MAX_LOGIN_ATTEMPTS attempts)"
ErrLoginMessage == "Login failure: message of the portal"
ErrLoginTimeout == "Login timed out"
ErrListingTimeout == "Timeout on the borrowing list page"
ErrRequest == "request or response processing error"
ErrReference == "ReferenceError: cannot access cookieString before initialization"
ErrInvalidTime == "RangeError: Invalid time value"
ErrGeneric == "An error occurred while fetching the library loan information"

NoError == "none"

Pending == [status |-> "pending", error |-> NoError, books |-> <<>>]

Thrown(msg) == [status |-> "thrown", error |-> msg, books |-> <<>>]

Returned(books) == [status |-> "returned", error |-> NoError, books |-> books]

----------------------------------------------------------------------------
(* URLs: scheme, host and the path as its segments *)

PortalHost == "www1.city.kawachinagano.lg.jp"

Url(scheme, host, path) == [scheme |-> scheme, host |-> host, path |-> path]

\* `${baseUrl}/${relative}`
BaseUrlPlus(relative) == Url("https", PortalHost, <<"WebOpac", "webopac">> \o relative)

loginUrl == BaseUrlPlus(<<"login.do">>)

indexUrl == BaseUrlPlus(<<"index.do">>)

userMenuUrl == BaseUrlPlus(<<"usermenu.do">>)

targetUrl == BaseUrlPlus(<<"userlist.do?type=2&page=1">>)

(* A reference found in a page (a form's action, a link's href): absent,   *)
(* relative to the base URL, rooted at the host ("/..."), or absolute      *)
(* ("http...").                                                            *)
NoRef == [kind |-> "none", scheme |-> "", host |-> "", path |-> <<>>]

RelativeRef(path) == [kind |-> "relative", scheme |-> "", host |-> "", path |-> path]

\* the login target chosen from the form's action
ActualLoginUrl(action) ==
    CASE action.kind = "none" -> loginUrl
      [] action.kind = "absolute" -> Url(action.scheme, action.host, action.path)
      [] action.kind = "rooted" -> Url("https", PortalHost, action.path)
      [] OTHER -> BaseUrlPlus(action.path)

----------------------------------------------------------------------------
(* Cookies *)

(* The Set-Cookie header of the response that is the n-th event of the     *)
(* run: one line per name, the value being fresh for that response.        *)
SetCookieHeader(names, n) ==
    [i \in 1..Len(names) |->
        [name |-> names[i], value |-> n, attributes |-> "Path=/; HttpOnly"]]

\* cookies.map(cookie => cookie.split(';')[0]).join('; ')
CookiePairs(setCookie) ==
    [i \in 1..Len(setCookie) |->
        [name |-> setCookie[i].name, value |-> setCookie[i].value]]

NoCookies == <<>>

\* a check of the Set-Cookie header that lets every response pass
MissingSetCookieIgnored(setCookie) == FALSE

\* !cookies || cookies.length === 0
MissingSetCookie(setCookie) == setCookie = <<>>

\* the session cookies left as they were before the login response
LoginCookieStringStale(old, setCookie) == old

\* cookieString = cookies.map(cookie => cookie.split(';')[0]).join('; ')
LoginCookieString(old, setCookie) == CookiePairs(setCookie)

\* the Set-Cookie batches a response of the portal may carry (none: <<>>)
SetCookieBatches == {<<>>, <<"JSESSIONID">>, <<"JSESSIONID", "LANG">>}

----------------------------------------------------------------------------
(* The events of a run: the requests, each with what its response held,    *)
(* and the pacing delays between them.                                     *)

NoBody == [empty |-> TRUE, toks |-> {}]

\* a login POST with its form fields, and the body and the Set-Cookie of
\* its response
Post(url, cookie, payload, setCookie, body) ==
    [site |-> "login", method |-> "POST", url |-> url, cookie |-> cookie,
     payload |-> payload, setCookie |-> setCookie, body |-> body,
     forms |-> <<>>, ms |-> 0]

\* a GET issued at a site of the code (index, usermenu, afterlogin,
\* booklist, loginpage), with the Set-Cookie of its response; forms holds
\* the forms of the page when the code reads them
Get(site, url, cookie, setCookie) ==
    [site |-> site, method |-> "GET", url |-> url, cookie |-> cookie,
     payload |-> <<>>, setCookie |-> setCookie, body |-> NoBody,
     forms |-> <<>>, ms |-> 0]

\* a wait that ends at once
DelaySkipped(ms) ==
    [site |-> "delay", method |-> "delay", url |-> Url("", "", <<>>),
     cookie |-> NoCookies, payload |-> <<>>, setCookie |-> <<>>, body |-> NoBody,
     forms |-> <<>>, ms |-> 0]

\* await new Promise(resolve => setTimeout(resolve, ms))
Delay(ms) ==
    [site |-> "delay", method |-> "delay", url |-> Url("", "", <<>>),
     cookie |-> NoCookies, payload |-> <<>>, setCookie |-> <<>>, body |-> NoBody,
     forms |-> <<>>, ms |-> ms]

----------------------------------------------------------------------------
(* Classification of the login response (part_000) *)

\* data.includes(logout) || !data.includes(login) || data.includes(riyoshokai)
LoginPageShowsSuccess(toks) ==
    \/ "logout" \in toks
    \/ "login" \notin toks
    \/ "riyoshokai" \in toks

\* response bodies: the empty string, or a text holding some marker words
LoginBodies ==
    {[empty |-> TRUE, toks |-> {}]} \cup
    {[empty |-> FALSE, toks |-> t] :
        t \in {{}, {"login"}, {"logout"}, {"logout", "login"}, {"login", "riyoshokai"}}}

\* what a login POST may come back with
LoginCookieBatches == {<<>>, <<"JSESSIONID">>}

LoginOutcomes ==
    {[exception |-> TRUE, body |-> [empty |-> TRUE, toks |-> {}], names |-> <<>>]} \cup
    {[exception |-> FALSE, body |-> b, names |-> n] :
        b \in LoginBodies, n \in LoginCookieBatches}

----------------------------------------------------------------------------
(* Dates.  A date text is the fragment yyyy/MM/dd with its three numbers;  *)
(* it need not name a day of the calendar.                                 *)

DateText(y, m, d) == [y |-> y, m |-> m, d |-> d]

NoDateText == [y |-> 0, m |-> 0, d |-> 0]

DaysInMonth(y, m) ==
    CASE m \in {4, 6, 9, 11} -> 30
      [] m = 2 -> IF (y % 4 = 0 /\ y % 100 # 0) \/ y % 400 = 0 THEN 29 ELSE 28
      [] OTHER -> 31

\* parse(dateText, 'yyyy/MM/dd', new Date()) of date-fns: Invalid Date
\* unless the month and the day of the month exist
Parse(t) ==
    IF t.m \in 1..12 /\ t.d \in 1..DaysInMonth(t.y, t.m)
    THEN [valid |-> TRUE, y |-> t.y, m |-> t.m, d |-> t.d]
    ELSE [valid |-> FALSE, y |-> 0, m |-> 0, d |-> 0]

TwoDigits(n) == IF n < 10 THEN "0" \o ToString(n) ELSE ToString(n)

\* the characters of a date text
DateString(t) == ToString(t.y) \o "/" \o TwoDigits(t.m) \o "/" \o TwoDigits(t.d)

----------------------------------------------------------------------------
(* Calendar arithmetic of date-fns and Date on days of the calendar *)

\* a day of the calendar
Day(y, m, d) == [y |-> y, m |-> m, d |-> d]

RECURSIVE DaysBeforeMonth(_, _)
DaysBeforeMonth(y, m) ==
    IF m <= 1 THEN 0 ELSE DaysBeforeMonth(y, m - 1) + DaysInMonth(y, m - 1)

\* the number of a day, 0001-01-01 (a Monday) being day 1
DayNumber(t) ==
    LET y == t.y - 1
    IN  365 * y + (y \div 4) - (y \div 100) + (y \div 400)
            + DaysBeforeMonth(t.y, t.m) + t.d

NextDay(t) ==
    IF t.d < DaysInMonth(t.y, t.m) THEN Day(t.y, t.m, t.d + 1)
    ELSE IF t.m < 12 THEN Day(t.y, t.m + 1, 1)
    ELSE Day(t.y + 1, 1, 1)

PrevDay(t) ==
    IF t.d > 1 THEN Day(t.y, t.m, t.d - 1)
    ELSE IF t.m > 1 THEN Day(t.y, t.m - 1, DaysInMonth(t.y, t.m - 1))
    ELSE Day(t.y - 1, 12, 31)

\* addDays(date, amount)
RECURSIVE addDays(_, _)
addDays(t, n) ==
    IF n = 0 THEN t
    ELSE IF n > 0 THEN addDays(NextDay(t), n - 1)
    ELSE addDays(PrevDay(t), n + 1)

\* getDay(date): 0 = Sunday .. 6 = Saturday
getDay(t) == DayNumber(t) % 7

\* getDate(date)
getDate(t) == t.d

\* differenceInCalendarDays(dateLeft, dateRight) on two valid dates
differenceInCalendarDays(dateLeft, dateRight) ==
    DayNumber(dateLeft) - DayNumber(dateRight)

----------------------------------------------------------------------------
(* Listing-page markup.  A page has the marker words of its <title> and of *)
(* its <body>, and its tables; a table has a class and rows; a row is its  *)
(* cells in order.  A cell has a tag (th, td), a class, and a content:     *)
(*   "titleLink"  <a ...><strong>T</strong></a><br>...                     *)
(*   "strong"     <strong>T</strong>                                       *)
(*   "link"       <a ...>T</a>                                             *)
(*   "text"       T                                                        *)
(*   "date"       a date text                                              *)
(*   "empty"      nothing                                                  *)
(* raw is T as written in the markup, text is T as cheerio's text().trim() *)
(* gives it.  Cells stand on lines of their own.                           *)

Cell(tag, cls, kind, raw, text, date) ==
    [tag |-> tag, cls |-> cls, kind |-> kind, raw |-> raw, text |-> text, date |-> date]

TitleCell(raw, text) == Cell("td", "", "titleLink", raw, text, NoDateText)

StrongCell(t) == Cell("td", "", "strong", t, t, NoDateText)

TextCell(t) == Cell("td", "", "text", t, t, NoDateText)

EmptyCell == Cell("td", "", "empty", "", "", NoDateText)

DueCell(t) == Cell("td", "nwrap", "date", "", "", t)

DateCell(t) == Cell("td", "", "date", "", "", t)

HeaderCell(t) == Cell("th", "", "text", t, t, NoDateText)

Table(cls, rows) == [cls |-> cls, rows |-> rows]

Page(title, body, tables) == [title |-> title, body |-> body, tables |-> tables]

\* $(cell).text().trim()
CellText(c) == IF c.kind = "date" THEN DateString(c.date) ELSE c.text

\* /\d{4}\/\d{2}\/\d{2}/.test(text)
HasDateShape(c) == c.kind = "date"

\* header wording: the return-due-date header holds the return-due wording
TextIncludes(text, marker) ==
    CASE marker = "returnDueDate" -> text = "returnDueDate"
      [] marker = "returnDue" -> text \in {"returnDue", "returnDueDate"}
      [] OTHER -> text = marker

\* class*="list"
ClassHasList(cls) == cls \in {"list", "list_table"}

RECURSIVE Concat(_)
Concat(seqs) == IF seqs = <<>> THEN <<>> ELSE Head(seqs) \o Concat(Tail(seqs))

\* the rows of some tables, in document order
RowsOf(tables) == Concat([i \in 1..Len(tables) |-> tables[i].rows])

\* the cells of some tables, in document order
CellsOf(tables) == Concat(RowsOf(tables))

IsTh(c) == c.tag = "th"

IsTd(c) == c.tag = "td"

\* the index of the first TRUE of a sequence of test results, 0 when none
FirstIndex(flags) ==
    IF \E i \in 1..Len(flags) : flags[i]
    THEN CHOOSE i \in 1..Len(flags) : flags[i] /\ \A j \in 1..(i - 1) : ~flags[j]
    ELSE 0

----------------------------------------------------------------------------
(* Pattern extraction (part_000) *)

\* a match of /<strong>(.+?)<\/strong><\/a><br>/
IsTitleMatch(c) == c.kind = "titleLink" /\ c.raw # ""

\* a match of /<td class="nwrap">(\d{4}\/\d{2}\/\d{2})<\/td>/
IsDateMatch(c) == c.tag = "td" /\ c.cls = "nwrap" /\ c.kind = "date"

\* titles: the first groups of the title matches, in document order
TitleMatches(page) ==
    LET cs == SelectSeq(CellsOf(page.tables), IsTitleMatch)
    IN  [i \in 1..Len(cs) |-> cs[i].raw]

\* dates: the first groups of the date matches, in document order
DateMatches(page) ==
    LET cs == SelectSeq(CellsOf(page.tables), IsDateMatch)
    IN  [i \in 1..Len(cs) |-> cs[i].date]

\* acceptance on equal counts alone
RegexAcceptedOnEqualCounts(titles, dates) == Len(titles) = Len(dates)

\* titles.length > 0 && titles.length === dates.length
RegexAccepted(titles, dates) == Len(titles) > 0 /\ Len(titles) = Len(dates)

Book(title, returnDate) == [title |-> title, returnDate |-> returnDate]

\* the pairing loop; format(returnDate, ...) throws on an Invalid Date
RegexBooks(titles, dates) ==
    IF \E i \in 1..Len(dates) : ~Parse(dates[i]).valid
    THEN [error |-> ErrInvalidTime, books |-> <<>>]
    ELSE [error |-> NoError,
          books |-> [i \in 1..Len(titles) |-> Book(titles[i], Parse(dates[i]))]]

----------------------------------------------------------------------------
(* Structural extraction *)

HasDueHeader(t) ==
    \E r \in 1..Len(t.rows) : \E k \in 1..Len(t.rows[r]) :
        /\ IsTh(t.rows[r][k])
        /\ \/ TextIncludes(CellText(t.rows[r][k]), "loanDue")
           \/ TextIncludes(CellText(t.rows[r][k]), "returnDue")

HasDateTd(t) ==
    \E r \in 1..Len(t.rows) : \E k \in 1..Len(t.rows[r]) :
        IsTd(t.rows[r][k]) /\ HasDateShape(t.rows[r][k])

HasManyCells(t) == Len(SelectSeq(CellsOf(<<t>>), IsTd)) > 5

HasListClass(t) == ClassHasList(t.cls)

\* the table(s) the rows are read from: every table with a list class, else
\* the table of the first due header, else the table of the first
\* date-shaped cell, else the first table with more than 5 data cells
BookTable(page) ==
    LET ts == page.tables
        listed == SelectSeq(ts, HasListClass)
        h == FirstIndex([k \in 1..Len(ts) |-> HasDueHeader(ts[k])])
        d == FirstIndex([k \in 1..Len(ts) |-> HasDateTd(ts[k])])
        m == FirstIndex([k \in 1..Len(ts) |-> HasManyCells(ts[k])])
    IN  IF listed # <<>> THEN listed
        ELSE IF h > 0 THEN <<ts[h]>>
        ELSE IF d > 0 THEN <<ts[d]>>
        ELSE IF m > 0 THEN <<ts[m]>>
        ELSE <<>>

HasStrong(c) == c.kind \in {"titleLink", "strong"}

HasLink(c) == c.kind \in {"titleLink", "link"}

RECURSIVE MaxTextLen(_)
MaxTextLen(cells) ==
    IF cells = <<>> THEN 0
    ELSE LET rest == MaxTextLen(Tail(cells))
             here == Len(CellText(Head(cells)))
         IN  IF here > rest THEN here ELSE rest

\* the title of a row: the first cell with emphasized text, else the first
\* cell with a link, else the first of the cells with the longest text
TitleOfRow(cells) ==
    LET si == FirstIndex([k \in 1..Len(cells) |-> HasStrong(cells[k])])
        li == FirstIndex([k \in 1..Len(cells) |-> HasLink(cells[k])])
        longest == CHOOSE i \in 0..Len(cells) :
            IF MaxTextLen(cells) = 0 THEN i = 0
            ELSE /\ i > 0
                 /\ Len(CellText(cells[i])) = MaxTextLen(cells)
                 /\ \A j \in 1..(i - 1) : Len(CellText(cells[j])) < MaxTextLen(cells)
    IN  IF si > 0 THEN cells[si].text
        ELSE IF li > 0 THEN cells[li].text
        ELSE IF longest > 0 THEN CellText(cells[longest])
        ELSE ""

IsReturnDueDateHeader(c) == TextIncludes(CellText(c), "returnDueDate")

\* returnDateIdx: the place of the return-due-date header among the header
\* cells of the table, counted from 0; -1 when there is none
ReturnDateIdx(bookTable) ==
    LET ths == SelectSeq(CellsOf(bookTable), IsTh)
    IN  FirstIndex([k \in 1..Len(ths) |-> IsReturnDueDateHeader(ths[k])]) - 1

NoDue == [found |-> FALSE, date |-> NoDateText]

Due(t) == [found |-> TRUE, date |-> t]

\* the first date-shaped cell of the row, whatever its index (index.js)
FirstDateCell(cells) ==
    LET i == FirstIndex([k \in 1..Len(cells) |-> HasDateShape(cells[k])])
    IN  IF i > 0 THEN Due(cells[i].date) ELSE NoDue

\* the first date-shaped cell from the 4th cell on
FirstDateCellFrom4th(cells) ==
    LET late == [i \in 1..Len(cells) |->
                    IF i >= 4 THEN cells[i] ELSE EmptyCell]
        i == FirstIndex([k \in 1..Len(late) |-> HasDateShape(late[k])])
    IN  IF i > 0 THEN Due(cells[i].date) ELSE NoDue

\* the due date of a row in part_000: the cell under the return-due-date
\* header when that index exists in the row, else the scan from the 4th cell
DueDateOfRow(cells, returnDateIdx) ==
    IF returnDateIdx >= 0 /\ returnDateIdx < Len(cells)
    THEN IF HasDateShape(cells[returnDateIdx + 1])
         THEN Due(cells[returnDateIdx + 1].date)
         ELSE NoDue
    ELSE FirstDateCellFrom4th(cells)

\* the records one row contributes (none or one)
RowBooks(v, bookTable, rowIndex, row) ==
    LET hasHeaders == SelectSeq(CellsOf(bookTable), IsTh) # <<>>
        cells == SelectSeq(row, IsTd)
        title == TitleOfRow(cells)
        due == IF v = "part_000"
               THEN DueDateOfRow(cells, ReturnDateIdx(bookTable))
               ELSE FirstDateCell(cells)
    IN  IF rowIndex = 0 /\ hasHeaders THEN <<>>
        ELSE IF Len(cells) < 2 THEN <<>>
        ELSE IF title # "" /\ due.found /\ Parse(due.date).valid
             THEN <<Book(title, Parse(due.date))>>
             ELSE <<>>

\* the rows of the table, each with its index, in order
TableBooks(v, page) ==
    LET bookTable == BookTable(page)
        rows == RowsOf(bookTable)
    IN  Concat([i \in 1..Len(rows) |-> RowBooks(v, bookTable, i - 1, rows[i])])

----------------------------------------------------------------------------
(* Listing page: timeout detection and the extraction cascade *)

\* bookListTitle.includes(timeout) (part_000); index.js has no such check
IsTimeoutPage(v, page) == v = "part_000" /\ "timeout" \in page.title

\* what the extraction gives: the records, or the error it throws
ExtractBooks(v, page) ==
    IF v = "part_000" /\ RegexAccepted(TitleMatches(page), DateMatches(page))
    THEN RegexBooks(TitleMatches(page), DateMatches(page))
    ELSE [error |-> NoError, books |-> TableBooks(v, page)]

\* the strategies the extraction runs on a page, in order
StrategiesRun(v, page) ==
    IF v # "part_000" THEN <<"table">>
    ELSE IF RegexAccepted(TitleMatches(page), DateMatches(page))
    THEN <<"regex">>
    ELSE <<"regex", "table">>

----------------------------------------------------------------------------
(* getGarbageInfo.  Labels in Latin letters: "moeru" burnable, "pet" PET   *)
(* bottles, "pura" plastic packaging, "moenai" non-burnable, "kan" cans,   *)
(* bottles, small metal, paper and cloth.                                  *)

\* the labels of the day, in the order they are pushed; <<>> stands for null
getGarbageInfo(targetDate) ==
    LET dayOfWeek == getDay(targetDate)
        firstDayOfMonth == getDay(Day(targetDate.y, targetDate.m, 1))
        \* Math.ceil((dateOfMonth + firstDayOfMonth) / 7)
        weekOfMonth == (getDate(targetDate) + firstDayOfMonth + 6) \div 7
        burnable == IF dayOfWeek = 3 \/ dayOfWeek = 6 THEN <<"moeru">> ELSE <<>>
        tuesday ==
            IF dayOfWeek # 2 THEN <<>>
            ELSE CASE weekOfMonth = 1 -> <<"pet", "pura">>
                   [] weekOfMonth = 2 -> <<"moenai">>
                   [] weekOfMonth = 3 -> <<"pura">>
                   [] weekOfMonth = 4 -> <<"kan">>
                   [] OTHER -> <<>>
    IN  burnable \o tuesday

----------------------------------------------------------------------------
(* Messages.  A message is its lines in order; a line has a kind:          *)
(*   "garbage"      the waste-collection line, with its date and labels    *)
(*   "header"       the header of a bucket, with its count                 *)
(*   "title"        one title of a bucket                                  *)
(*   "blank"        an empty line                                          *)
(*   "placeholder"  the fixed library-failure text                         *)

NoDay == Day(0, 0, 0)

Line(kind, bucket, count, text, date, labels) ==
    [kind |-> kind, bucket |-> bucket, count |-> count, text |-> text,
     date |-> date, labels |-> labels]

HeaderLine(bucket, count) == Line("header", bucket, count, "", NoDay, <<>>)

TitleLine(bucket, title) == Line("title", bucket, 0, title, NoDay, <<>>)

BlankLine == Line("blank", "", 0, "", NoDay, <<>>)

PlaceholderLine == Line("placeholder", "", 0, "", NoDay, <<>>)

\* null
Null == [null |-> TRUE, lines |-> <<>>]

\* a string, as its lines
Text(lines) == [null |-> FALSE, lines |-> lines]

\* if (message): null and the empty string are falsy
Truthy(message) == ~message.null /\ message.lines # <<>>

\* String.trim() at the end of the lines: the line break of the last line
\* and the empty lines after it go
RECURSIVE TrimEnd(_)
TrimEnd(lines) ==
    IF lines = <<>> THEN <<>>
    ELSE IF lines[Len(lines)].kind = "blank"
    THEN TrimEnd(SubSeq(lines, 1, Len(lines) - 1))
    ELSE lines

----------------------------------------------------------------------------
(* createLibraryReminderMessage *)

\* daysUntilDue === 3 (NaN, of an Invalid Date, equals nothing)
DueIn3Days(book, base) ==
    book.returnDate.valid /\ differenceInCalendarDays(book.returnDate, base) = 3

\* a second bucket that reaches to the day after tomorrow
DueSoonWithin2Days(v, book, base) ==
    /\ book.returnDate.valid
    /\ differenceInCalendarDays(book.returnDate, base) \in 0..2

\* the test of the second bucket: 0 or 1 days in part_000, 1 day in index.js
DueSoon(v, book, base) ==
    /\ book.returnDate.valid
    /\ LET daysUntilDue == differenceInCalendarDays(book.returnDate, base)
       IN  IF v = "part_000"
           THEN daysUntilDue <= 1 /\ daysUntilDue >= 0
           ELSE daysUntilDue = 1

\* reminders: the titles of the two buckets, in the order of the records
Reminders(v, bs, base) ==
    LET In3(b) == DueIn3Days(b, base)
        In1(b) == ~DueIn3Days(b, base) /\ DueSoon(v, b, base)
        three == SelectSeq(bs, In3)
        one == SelectSeq(bs, In1)
    IN  [days3 |-> [i \in 1..Len(three) |-> three[i].title],
         day1 |-> [i \in 1..Len(one) |-> one[i].title]]

\* a section whose header counts itself
SectionCountingHeader(bucket, titles) ==
    IF titles = <<>> THEN <<>>
    ELSE <<HeaderLine(bucket, Len(titles) + 1)>> \o
         [i \in 1..Len(titles) |-> TitleLine(bucket, titles[i])]

\* the lines of one bucket: its header with the count, then its titles
Section(bucket, titles) ==
    IF titles = <<>> THEN <<>>
    ELSE <<HeaderLine(bucket, Len(titles))>> \o
         [i \in 1..Len(titles) |-> TitleLine(bucket, titles[i])]

\* a message that is the empty string, not null, when nothing is left
createLibraryReminderMessageNeverNull(v, bs, base) ==
    LET reminders == Reminders(v, bs, base)
        first == Section("3days", reminders.days3)
        message == (IF first # <<>> THEN first \o <<BlankLine>> ELSE <<>>) \o
                   Section("1day", reminders.day1)
    IN  Text(TrimEnd(message))

\* the message: the 3-days section and an empty line, then the due-soon
\* section, trimmed; null when nothing is left
createLibraryReminderMessage(v, bs, base) ==
    LET reminders == Reminders(v, bs, base)
        first == Section("3days", reminders.days3)
        message == (IF first # <<>> THEN first \o <<BlankLine>> ELSE <<>>) \o
                   Section("1day", reminders.day1)
    IN  IF TrimEnd(message) # <<>> THEN Text(TrimEnd(message)) ELSE Null

----------------------------------------------------------------------------
(* What the portal may answer *)

\* a GET: a network error, or a response with some Set-Cookie batch
GetOutcomes ==
    {[exception |-> TRUE, names |-> <<>>]} \cup
    {[exception |-> FALSE, names |-> n] : n \in SetCookieBatches}

\* a form field: its name and its value, the value as its characters
Field(name, value) == [name |-> name, value |-> value]

\* a form of a page: its action and its hidden inputs, in document order
Form(action, hidden) == [action |-> action, hidden |-> hidden]

\* the user menu pages the portal may answer with, as their forms in
\* document order
LoginFormPages ==
    {
     \* a page without a form
     <<>>,
     \* the login form with its two hidden inputs
     <<Form(RelativeRef(<<"login.do">>),
            <<Field("histnum", <<"1">>), Field("forward", <<>>)>>)>>,
     \* a login form whose action names another host, over plain HTTP
     <<Form([kind |-> "absolute", scheme |-> "http",
             host |-> "other.example.org", path |-> <<"login.do">>],
            <<>>)>>,
     \* a login form with a hidden input named passwd, then a search form
     \* with a hidden input of its own
     <<Form(RelativeRef(<<"login.do">>),
            <<Field("histnum", <<"1">>), Field("passwd", <<>>)>>),
       Form(RelativeRef(<<"search.do">>), <<Field("mode", <<"s">>)>>)>>
    }

\* the properties of an object, in order, after the fields are assigned to
\* it one by one: a name the object has keeps its place and takes the new
\* value, a new name goes to the end
RECURSIVE AssignAll(_, _)
AssignAll(obj, fields) ==
    IF fields = <<>> THEN obj
    ELSE LET f == Head(fields)
             has == \E i \in 1..Len(obj) : obj[i].name = f.name
             next == IF has
                     THEN [i \in 1..Len(obj) |->
                              IF obj[i].name = f.name THEN f ELSE obj[i]]
                     ELSE Append(obj, f)
         IN  AssignAll(next, Tail(fields))

\* the fields of the login POST: part_000 spreads the captured hidden
\* inputs over userno and passwd, index.js writes its four fields
LoginPayload(v, id, pw, inputs) ==
    IF v = "part_000"
    THEN AssignAll(<<Field("userno", id), Field("passwd", pw)>>, inputs)
    ELSE <<Field("userno", id), Field("passwd", pw),
           Field("histnum", <<"1">>), Field("forward", <<>>)>>

Link(text, href) == [text |-> text, href |-> href]

\* the links of the user menu page
MenuLinkLists ==
    {<<>>,
     <<Link("help", RelativeRef(<<"help.do">>)),
       Link("kashidashiichiran", RelativeRef(<<"userlist.do?type=2&page=1">>))>>,
     <<Link("riyoshokai",
            [kind |-> "absolute", scheme |-> "http",
             host |-> "other.example.org", path |-> <<"userlist.do">>])>>}

\* linkText.includes(...) || linkText.includes(...) || href.includes('userlist.do')
IsBorrowingListLink(l) ==
    \/ l.text \in {"kashidashiichiran", "riyoshokai"}
    \/ \E i \in 1..Len(l.href.path) :
          l.href.path[i] \in {"userlist.do", "userlist.do?type=2&page=1"}

\* the listing URL: the href of the first matching link, else the default,
\* made absolute
BorrowingListUrl(links) ==
    LET i == FirstIndex([k \in 1..Len(links) |-> IsBorrowingListLink(links[k])])
        href == IF i > 0 /\ links[i].href.kind # "none"
                THEN links[i].href
                ELSE RelativeRef(<<"userlist.do?type=2&page=1">>)
    IN  CASE href.kind = "absolute" -> Url(href.scheme, href.host, href.path)
          [] href.kind = "rooted" -> Url("https", PortalHost, href.path)
          [] OTHER -> BaseUrlPlus(href.path)

MenuOutcomes ==
    {[exception |-> TRUE, links |-> <<>>, names |-> <<>>]} \cup
    {[exception |-> FALSE, links |-> l, names |-> n] :
        l \in MenuLinkLists, n \in SetCookieBatches}

\* the listing pages the portal may answer with
ListingPages ==
    {
     \* a page without tables
     Page({}, {}, <<>>),
     \* a listing of two loans under a header row
     Page({}, {},
          <<Table("list",
                  <<  <<HeaderCell("title"), HeaderCell("returnDueDate")>>,
                      <<TitleCell("Book A", "Book A"), DueCell(DateText(2024, 6, 4))>>,
                      <<TitleCell("Book B", "Book B"), DueCell(DateText(2024, 6, 2))>>  >>)>>),
     \* a listing whose second loan shows 2024/02/30
     Page({}, {},
          <<Table("list",
                  <<  <<HeaderCell("title"), HeaderCell("returnDueDate")>>,
                      <<TitleCell("Book A", "Book A"), DueCell(DateText(2024, 6, 4))>>,
                      <<TitleCell("Book B", "Book B"), DueCell(DateText(2024, 2, 30))>>  >>)>>),
     \* a table without class, header or title link; dates from the 3rd cell on
     Page({}, {},
          <<Table("",
                  <<  <<StrongCell("Book A"), TextCell("x"), DateCell(DateText(2024, 5, 20)),
                        DateCell(DateText(2024, 6, 4))>>,
                      <<StrongCell("Book B"), TextCell("x"), DateCell(DateText(2024, 5, 20)),
                        DateCell(DateText(2024, 13, 45))>>  >>)>>),
     \* a listing whose table has its header row and no loan
     Page({}, {},
          <<Table("list",
                  <<  <<HeaderCell("title"), HeaderCell("returnDueDate")>>  >>)>>),
     \* two titles and one due-date cell: the second loan shows a word in place
     \* of its date
     Page({}, {},
          <<Table("list",
                  <<  <<HeaderCell("title"), HeaderCell("returnDueDate")>>,
                      <<TitleCell("Book A", "Book A"), DueCell(DateText(2024, 6, 4))>>,
                      <<TitleCell("Book B", "Book B"), TextCell("renewing")>>  >>)>>),
     \* two titles and two nwrap date cells, both in the row of the first loan
     \* (its loan date and its due date)
     Page({}, {},
          <<Table("list",
                  <<  <<HeaderCell("title"), HeaderCell("loanDate"), HeaderCell("returnDueDate")>>,
                      <<TitleCell("Book A", "Book A"), DueCell(DateText(2024, 5, 20)),
                        DueCell(DateText(2024, 6, 4))>>,
                      <<TitleCell("Book B", "Book B"), TextCell("renewing"),
                        TextCell("renewing")>>  >>)>>),
     \* a well-formed listing with a title that holds an ampersand, written
     \* &amp; in the markup
     Page({}, {},
          <<Table("list",
                  <<  <<HeaderCell("title"), HeaderCell("returnDueDate")>>,
                      <<TitleCell("Tom &amp; Jerry", "Tom & Jerry"),
                        DueCell(DateText(2024, 6, 4))>>  >>)>>),
     \* a listing without a header row, each row starting with a header cell
     \* that numbers it
     Page({}, {},
          <<Table("list",
                  <<  <<HeaderCell("1"), StrongCell("Book A"), TextCell("x"), TextCell("y"),
                        DateCell(DateText(2024, 6, 4))>>,
                      <<HeaderCell("2"), StrongCell("Book B"), TextCell("x"), TextCell("y"),
                        DateCell(DateText(2024, 6, 2))>>  >>)>>),
     \* the timeout page of the portal
     Page({"timeout"}, {"timeout"}, <<>>),
     \* a page with the timeout wording in its body only
     Page({"error"}, {"timeout"}, <<>>)
    }

NotFetched == Page({"not fetched"}, {}, <<>>)

ListingOutcomes ==
    {[exception |-> TRUE, page |-> NotFetched]} \cup
    {[exception |-> FALSE, page |-> pg] : pg \in ListingPages}

----------------------------------------------------------------------------
(* The log.  A line of the log is the place that writes it and the values  *)
(* put into its text; the lines kept are those whose values are computed   *)
(* from the identifier or the secret.                                      *)

LogLine(at, values) == [at |-> at, values |-> values]

\* the decimal digits of a number below 100
DecimalChars(n) ==
    IF n < 10 THEN <<ToString(n)>> ELSE <<ToString(n \div 10), ToString(n % 10)>>

\* libraryId.substring(0, 2) followed by six asterisks
MaskedId(id) ==
    SubSeq(id, 1, IF Len(id) < 2 THEN Len(id) ELSE 2) \o Rep("*", 6)

\* part_000 writes the length of the secret before checking it
PasswordLengthLog(v, pw) ==
    IF v = "part_000"
    THEN <<LogLine("Using password with length", <<DecimalChars(Len(pw))>>)>>
    ELSE <<>>

\* a value as URLSearchParams writes it
UrlEncode(chars) ==
    Concat([i \in 1..Len(chars) |->
        CASE chars[i] = " " -> <<"+">>
          [] chars[i] = "\n" -> <<"%", "0", "A">>
          [] OTHER -> <<chars[i]>>])

\* new URLSearchParams({userno, passwd, histnum, forward}).toString(), with
\* the default values of the hidden fields
IndexLoginPayload(id, pw) ==
    <<"u", "s", "e", "r", "n", "o", "=">> \o UrlEncode(id) \o
    <<"&", "p", "a", "s", "s", "w", "d", "=">> \o UrlEncode(pw) \o
    <<"&", "h", "i", "s", "t", "n", "u", "m", "=", "1">> \o
    <<"&", "f", "o", "r", "w", "a", "r", "d", "=">>

----------------------------------------------------------------------------
(* The run *)

\* the moment discordReminder starts, in UTC: a day and an hour of it
Time(day, hour) == [day |-> day, hour |-> hour]

NoTime == Time(NoDay, 0)

ValidId == Rep("7", IdDigits)

\* the credentials of the full runs
CredIds == {ValidId, Rep("7", 7)}

CredPws == {Rep("a", 6), Rep("a", 3)}

\* getLibraryBooks with its arguments, at position `at`: "validate" when
\* it has been called, "idle" before
LibraryInit(ids, pws, at) ==
    /\ variant \in {"part_000", "index.js"}
    /\ libraryId \in ids
    /\ libraryPassword \in pws
    /\ pc = at
    /\ trace = <<>>
    /\ initialCookies = NoCookies
    /\ loginFormAction = NoRef
    /\ formInputs = <<>>
    /\ loginPageCookies = NoCookies
    /\ cookieString = NoCookies
    /\ loginSuccess = FALSE
    /\ loginAttempts = 0
    /\ borrowingListUrl = Url("", "", <<>>)
    /\ bookListHtml = NotFetched
    /\ ranExtraction = FALSE
    /\ caughtError = NoError
    /\ result = Pending
    /\ strategies = <<>>
    /\ log = <<>>

\* discordReminder and createLibraryReminderMessage are not running
NoReminder ==
    /\ opc = "none"
    /\ executionTime = NoTime
    /\ baseDate = NoDay
    /\ booksGiven = <<>>
    /\ libraryMessage = Null
    /\ finalMessage = <<>>
    /\ outcome = "pending"

\* getLibraryBooks called on its own
Init == LibraryInit(CredIds, CredPws, "validate") /\ NoReminder

\* the credentials of the runs of the credential checks
InitCred ==
    /\ LibraryInit(
          {Rep("7", n) : n \in 0..MaxIdLen} \cup
          {[ValidId EXCEPT ![p] = c] : p \in 1..IdDigits, c \in {"a", " "}} \cup
          {ValidId \o <<"\n">>},
          {Rep(c, n) : c \in {"a", "-", "_"}, n \in 0..MaxPwLen},
          "validate")
    /\ NoReminder

\* the outer catch: whatever was thrown inside the try block is logged and
\* replaced by one fixed error
OuterCatch(err) == ErrGeneric

\* a failure that leaves the run at its step, to issue the request again
FailRetrying(err) ==
    /\ caughtError' = err
    /\ result' = result
    /\ pc' = pc

Fail(err) ==
    /\ caughtError' = err
    /\ result' = Thrown(OuterCatch(err))
    /\ pc' = "done"

\* the two checks before the try block; their errors reach the caller as thrown
ValidateCredentials ==
    /\ pc = "validate"
    /\ IF ~IdRegexTest(libraryId)
       THEN result' = Thrown(ErrIdFormat) /\ pc' = "done" /\ log' = log
       ELSE IF PasswordRejected(variant, libraryPassword)
       THEN /\ result' = Thrown(IF variant = "part_000" THEN ErrPwLength ELSE ErrPwFormat)
            /\ pc' = "done"
            /\ log' = log \o PasswordLengthLog(variant, libraryPassword)
       ELSE /\ result' = result
            /\ pc' = IF variant = "part_000" THEN "index" ELSE "loginpage"
            /\ log' = log \o PasswordLengthLog(variant, libraryPassword)
                          \o <<LogLine("Using Library ID", <<MaskedId(libraryId)>>)>>
    /\ UNCHANGED <<variant, libraryId, libraryPassword, trace, initialCookies,
                   loginFormAction, formInputs, loginPageCookies, cookieString, loginSuccess,
                   loginAttempts, borrowingListUrl, bookListHtml, ranExtraction,
                   caughtError, strategies>>
    /\ UNCHANGED reminderVars

\* part_000: GET index.do, keep its cookies, wait 1 s
FetchIndex ==
    /\ pc = "index"
    /\ \E o \in GetOutcomes :
         LET sc == SetCookieHeader(o.names, Len(trace) + 1)
             req == Get("index", indexUrl, NoCookies, sc)
         IN  IF o.exception
             THEN /\ trace' = Append(trace, req)
                  /\ Fail(ErrRequest)
                  /\ UNCHANGED initialCookies
             ELSE /\ trace' = trace \o <<req, Delay(1000)>>
                  /\ initialCookies' = CookiePairs(sc)
                  /\ pc' = "usermenu"
                  /\ UNCHANGED <<caughtError, result>>
    /\ UNCHANGED <<variant, libraryId, libraryPassword, loginFormAction, formInputs,
                   loginPageCookies, cookieString, loginSuccess, loginAttempts,
                   borrowingListUrl, bookListHtml, ranExtraction, strategies, log>>
    /\ UNCHANGED reminderVars

\* part_000: GET usermenu.do with the initial cookies, read the action of
\* the first form and the named hidden inputs of every form, take the
\* page's cookies in place of the initial ones, wait 1.5 s
FetchUserMenu ==
    /\ pc = "usermenu"
    /\ \E o \in GetOutcomes, forms \in LoginFormPages :
         LET sc == SetCookieHeader(o.names, Len(trace) + 1)
             req == Get("usermenu", userMenuUrl, initialCookies, sc)
             Named(f) == f.name # ""
             hidden == Concat([i \in 1..Len(forms) |-> forms[i].hidden])
         IN  IF o.exception
             THEN /\ trace' = Append(trace, req)
                  /\ Fail(ErrRequest)
                  /\ UNCHANGED <<loginFormAction, formInputs, loginPageCookies>>
             ELSE /\ trace' = trace \o <<[req EXCEPT !.forms = forms], Delay(1500)>>
                  /\ loginFormAction' =
                        IF forms = <<>> THEN NoRef ELSE forms[1].action
                  /\ formInputs' = AssignAll(<<>>, SelectSeq(hidden, Named))
                  /\ loginPageCookies' =
                        IF sc # <<>> THEN CookiePairs(sc) ELSE initialCookies
                  /\ pc' = "login"
                  /\ UNCHANGED <<caughtError, result>>
    /\ UNCHANGED <<variant, libraryId, libraryPassword, initialCookies,
                   cookieString, loginSuccess, loginAttempts,
                   borrowingListUrl, bookListHtml, ranExtraction, strategies, log>>
    /\ UNCHANGED reminderVars

\* part_000: one pass of the login loop: the POST, the classification of
\* its page, the cookies of its response, and the way on (break, retry
\* after the delay, or failure)
LoginAttempt ==
    /\ pc = "login"
    /\ loginAttempts < MAX_LOGIN_ATTEMPTS
    /\ \E o \in LoginOutcomes :
         LET n == loginAttempts + 1
             sc == SetCookieHeader(o.names, Len(trace) + 1)
             payload == LoginPayload(variant, libraryId, libraryPassword, formInputs)
             req == Post(ActualLoginUrl(loginFormAction), loginPageCookies,
                         payload, sc, o.body)
             classified == /\ ~o.exception
                           /\ ~o.body.empty
                           /\ LoginPageShowsSuccess(o.body.toks)
             success == loginSuccess \/ classified
             more == n < MAX_LOGIN_ATTEMPTS
         IN  /\ loginAttempts' = n
             /\ log' = Append(log, LogLine("Login payload", <<MaskedId(libraryId)>>))
             /\ loginSuccess' = success
             /\ IF o.exception \/ MissingSetCookie(sc)
                THEN /\ cookieString' = cookieString
                     /\ IF more
                        THEN /\ trace' = trace \o <<req, Delay(RetryDelayMs)>>
                             /\ pc' = "login"
                             /\ UNCHANGED <<caughtError, result>>
                        ELSE /\ trace' = Append(trace, req)
                             /\ Fail(ErrLoginFailedTimes)
                ELSE /\ cookieString' = LoginCookieString(cookieString, sc)
                     /\ IF success
                        THEN /\ trace' = trace \o <<req, Delay(2000)>>
                             /\ pc' = "afterlogin"
                             /\ UNCHANGED <<caughtError, result>>
                        ELSE IF more
                        THEN /\ trace' = trace \o <<req, Delay(RetryDelayMs)>>
                             /\ pc' = "login"
                             /\ UNCHANGED <<caughtError, result>>
                        ELSE /\ trace' = Append(trace, req)
                             /\ Fail(ErrLoginExhausted)
    /\ UNCHANGED <<variant, libraryId, libraryPassword, initialCookies,
                   loginFormAction, formInputs, loginPageCookies, borrowingListUrl,
                   bookListHtml, ranExtraction, strategies>>
    /\ UNCHANGED reminderVars

\* part_000: GET usermenu.do with the login cookies, find the listing link,
\* take the page's cookies in place of the login cookies, wait 1.5 s
FetchUserMenuAfterLogin ==
    /\ pc = "afterlogin"
    /\ \E o \in MenuOutcomes :
         LET sc == SetCookieHeader(o.names, Len(trace) + 1)
             req == Get("afterlogin", userMenuUrl, cookieString, sc)
         IN  IF o.exception
             THEN /\ trace' = Append(trace, req)
                  /\ Fail(ErrRequest)
                  /\ UNCHANGED <<cookieString, borrowingListUrl>>
             ELSE /\ trace' = trace \o <<req, Delay(1500)>>
                  /\ borrowingListUrl' = BorrowingListUrl(o.links)
                  /\ cookieString' =
                        IF sc # <<>> THEN CookiePairs(sc) ELSE cookieString
                  /\ pc' = "booklist"
                  /\ UNCHANGED <<caughtError, result>>
    /\ UNCHANGED <<variant, libraryId, libraryPassword, initialCookies,
                   loginFormAction, formInputs, loginPageCookies, loginSuccess,
                   loginAttempts, bookListHtml, ranExtraction, strategies, log>>
    /\ UNCHANGED reminderVars

\* GET the listing with the session cookies; a timeout page (part_000) or
\* an error thrown by the extraction ends in the outer catch, else the
\* records are returned
FetchBookList ==
    /\ pc = "booklist"
    /\ \E o \in ListingOutcomes :
         LET url == IF variant = "part_000" THEN borrowingListUrl ELSE targetUrl
             req == Get("booklist", url, cookieString, <<>>)
             ex == ExtractBooks(variant, o.page)
         IN  /\ trace' = Append(trace, req)
             /\ bookListHtml' = o.page
             /\ IF o.exception
                THEN Fail(ErrRequest) /\ UNCHANGED <<ranExtraction, strategies>>
                ELSE IF IsTimeoutPage(variant, o.page)
                THEN Fail(ErrListingTimeout) /\ UNCHANGED <<ranExtraction, strategies>>
                ELSE /\ ranExtraction' = TRUE
                     /\ strategies' = StrategiesRun(variant, o.page)
                     /\ IF ex.error # NoError
                        THEN Fail(ex.error)
                        ELSE /\ result' = Returned(ex.books)
                             /\ pc' = "done"
                             /\ UNCHANGED caughtError
    /\ UNCHANGED <<variant, libraryId, libraryPassword, initialCookies,
                   loginFormAction, formInputs, loginPageCookies, cookieString,
                   loginSuccess, loginAttempts, borrowingListUrl, log>>
    /\ UNCHANGED reminderVars

----------------------------------------------------------------------------
(* index.js *)

\* index.js: GET login.do without cookies
FetchLoginPage ==
    /\ pc = "loginpage"
    /\ \E o \in GetOutcomes :
         LET sc == SetCookieHeader(o.names, Len(trace) + 1)
             req == Get("loginpage", loginUrl, NoCookies, sc)
         IN  /\ trace' = Append(trace, req)
             /\ IF o.exception
                THEN Fail(ErrRequest)
                ELSE pc' = "post" /\ UNCHANGED <<caughtError, result>>
    /\ UNCHANGED <<variant, libraryId, libraryPassword, initialCookies,
                   loginFormAction, formInputs, loginPageCookies, cookieString,
                   loginSuccess, loginAttempts, borrowingListUrl,
                   bookListHtml, ranExtraction, strategies, log>>
    /\ UNCHANGED reminderVars

IndexLoginOutcomes ==
    {[exception |-> TRUE, body |-> NoBody, names |-> <<>>]} \cup
    {[exception |-> FALSE, body |-> [empty |-> FALSE, toks |-> t], names |-> n] :
        t \in SUBSET {"errorword", "msg_plate", "timeout", "redirect"},
        n \in LoginCookieBatches} \cup
    {[exception |-> FALSE, body |-> NoBody, names |-> n] : n \in LoginCookieBatches}

\* the error the processing of the login response throws, NoError when none:
\* a portal message, a timeout, the redirect branch reading cookieString
\* before its declaration, a response without Set-Cookie
IndexLoginError(body, setCookie) ==
    LET errorShown == "errorword" \in body.toks \/ "timeout" \in body.toks
    IN  IF ~body.empty /\ errorShown /\ "msg_plate" \in body.toks
        THEN ErrLoginMessage
        ELSE IF ~body.empty /\ errorShown /\ "timeout" \in body.toks
        THEN ErrLoginTimeout
        ELSE IF ~body.empty /\ "redirect" \in body.toks
        THEN ErrReference
        ELSE IF MissingSetCookie(setCookie)
        THEN ErrLoginNoCookie
        ELSE NoError

\* index.js: the one login POST, without a Cookie header
LoginPost ==
    /\ pc = "post"
    /\ \E o \in IndexLoginOutcomes :
         LET sc == SetCookieHeader(o.names, Len(trace) + 1)
             payload == LoginPayload(variant, libraryId, libraryPassword, formInputs)
             req == Post(loginUrl, NoCookies, payload, sc, o.body)
             err == IF o.exception THEN ErrRequest ELSE IndexLoginError(o.body, sc)
         IN  /\ trace' = Append(trace, req)
             /\ log' = Append(log, LogLine("Login payload",
                    <<IndexLoginPayload(libraryId, libraryPassword)>>))
             /\ IF err # NoError
                THEN Fail(err) /\ UNCHANGED cookieString
                ELSE /\ cookieString' = LoginCookieString(cookieString, sc)
                     /\ pc' = "booklist"
                     /\ UNCHANGED <<caughtError, result>>
    /\ UNCHANGED <<variant, libraryId, libraryPassword, initialCookies,
                   loginFormAction, formInputs, loginPageCookies, loginSuccess,
                   loginAttempts, borrowingListUrl, bookListHtml, ranExtraction,
                   strategies>>
    /\ UNCHANGED reminderVars

----------------------------------------------------------------------------
(* discordReminder *)

\* new Date(executionTime.getTime() + JST_OFFSET), read in a runtime whose
\* zone is UTC: the day is the next one from 15:00 UTC on
nowInJST(t) == IF t.hour + 9 >= 24 THEN NextDay(t.day) ELSE t.day

tomorrowInJST(t) == addDays(nowInJST(t), 1)

\* garbageMessage
GarbageMessage(t) ==
    LET targetDate == tomorrowInJST(t)
        garbageInfo == getGarbageInfo(targetDate)
    IN  Line("garbage", "", 0, "", targetDate,
             IF garbageInfo # <<>> THEN garbageInfo ELSE <<"arimasen">>)

InitReminder ==
    /\ LibraryInit(CredIds, CredPws, "idle")
    /\ opc = "start"
    /\ executionTime \in {Time(Day(2024, 5, 31), 20), Time(Day(2024, 6, 2), 3)}
    /\ baseDate = NoDay
    /\ booksGiven = <<>>
    /\ libraryMessage = Null
    /\ finalMessage = <<>>
    /\ outcome = "pending"

\* the start: the dates, getSecrets (whose failure is thrown on), the
\* waste-collection line, and the call of getLibraryBooks
StartReminder ==
    /\ opc = "start"
    /\ \E secretsFetched \in BOOLEAN :
         IF secretsFetched
         THEN /\ opc' = "library"
              /\ pc' = "validate"
              /\ baseDate' = nowInJST(executionTime)
              /\ outcome' = outcome
         ELSE /\ opc' = "finished"
              /\ outcome' = "thrown"
              /\ UNCHANGED <<pc, baseDate>>
    /\ UNCHANGED <<variant, libraryId, libraryPassword, trace, initialCookies,
                   loginFormAction, formInputs, loginPageCookies, cookieString, loginSuccess,
                   loginAttempts, borrowingListUrl, bookListHtml, ranExtraction,
                   caughtError, result, strategies, log>>
    /\ UNCHANGED <<executionTime, booksGiven, libraryMessage, finalMessage>>

\* no text in place of the library section
LibraryFailureMessageMissing == Null

\* the text put in place of the library section when getLibraryBooks threw
LibraryFailureMessage == Text(<<PlaceholderLine>>)

\* a final message that takes the library message whatever it is
FinalMessageUnguarded(garbageMessage, message) ==
    <<garbageMessage>> \o <<BlankLine>> \o message.lines

\* finalMessage: the waste-collection line, then, when there is a library
\* message, an empty line and the library message
FinalMessage(garbageMessage, message) ==
    <<garbageMessage>> \o
    (IF Truthy(message) THEN <<BlankLine>> \o message.lines ELSE <<>>)

\* after getLibraryBooks: the library message from its records, or the
\* placeholder when it threw; then the final message, which is written to
\* the log.  The call that would send it is a comment, so the run issues no
\* request here and the events of the run stay as they are.
FinishReminder ==
    /\ opc = "library"
    /\ pc = "done"
    /\ LET message == IF result.status = "thrown"
                      THEN LibraryFailureMessage
                      ELSE createLibraryReminderMessage(variant, result.books, baseDate)
       IN  /\ libraryMessage' = message
           /\ finalMessage' = FinalMessage(GarbageMessage(executionTime), message)
    /\ outcome' = "completed"
    /\ opc' = "finished"
    /\ UNCHANGED libraryVars
    /\ UNCHANGED <<executionTime, baseDate, booksGiven>>

----------------------------------------------------------------------------
(* createLibraryReminderMessage called on record lists *)

MaxBooks == 3

\* the lists of records due around a date, the dates as parse gives them
BookLists(base) ==
    LET around == {Book(title, Parse(addDays(base, k))) :
                      title \in {"Book A", "Book B"}, k \in -1..4}
    IN  UNION {[1..n -> around] : n \in 0..MaxBooks}

InitMessage ==
    /\ LibraryInit({ValidId}, {Rep("a", 6)}, "idle")
    /\ opc = "message"
    /\ executionTime = NoTime
    /\ baseDate \in {Day(2024, 2, 27), Day(2023, 12, 30), Day(2024, 6, 1)}
    /\ booksGiven \in BookLists(baseDate)
    /\ libraryMessage = Null
    /\ finalMessage = <<>>
    /\ outcome = "pending"

CreateMessage ==
    /\ opc = "message"
    /\ libraryMessage' = createLibraryReminderMessage(variant, booksGiven, baseDate)
    /\ opc' = "messageDone"
    /\ UNCHANGED libraryVars
    /\ UNCHANGED <<executionTime, baseDate, booksGiven, finalMessage, outcome>>

----------------------------------------------------------------------------
(* getGarbageInfo called on the days of a year *)

\* discordReminder started at 00:00 UTC of a day of 2024; its target date
\* is the day after
InitGarbage ==
    /\ LibraryInit({ValidId}, {Rep("a", 6)}, "idle")
    /\ opc = "garbage"
    /\ executionTime \in
          {Time(Day(2024, md[1], md[2]), 0) :
              md \in {x \in (1..12) \X (1..31) : x[2] <= DaysInMonth(2024, x[1])}}
    /\ baseDate = NoDay
    /\ booksGiven = <<>>
    /\ libraryMessage = Null
    /\ finalMessage = <<>>
    /\ outcome = "pending"

\* the labels of the target date and the waste-collection line made of them
ComposeGarbageMessage ==
    /\ opc = "garbage"
    /\ finalMessage' = <<GarbageMessage(executionTime)>>
    /\ opc' = "garbageDone"
    /\ UNCHANGED libraryVars
    /\ UNCHANGED <<executionTime, baseDate, booksGiven, libraryMessage, outcome>>

----------------------------------------------------------------------------
(* Specifications *)

Next ==
    \/ ValidateCredentials
    \/ FetchIndex
    \/ FetchUserMenu
    \/ LoginAttempt
    \/ FetchUserMenuAfterLogin
    \/ FetchBookList
    \/ FetchLoginPage
    \/ LoginPost

Spec == Init /\ [][Next]_vars

\* the runs of the credential checks, up to the first request
NextCred == ValidateCredentials \/ FetchIndex \/ FetchLoginPage

SpecCred == InitCred /\ [][NextCred]_vars

\* the runs of discordReminder
NextReminder == StartReminder \/ Next \/ FinishReminder

SpecReminder == InitReminder /\ [][NextReminder]_vars

\* createLibraryReminderMessage on the record lists
NextMessage == CreateMessage

SpecMessage == InitMessage /\ [][NextMessage]_vars

\* getGarbageInfo on the days of a year
NextGarbage == ComposeGarbageMessage

SpecGarbage == InitGarbage /\ [][NextGarbage]_vars

----------------------------------------------------------------------------
(* Properties *)

\* exactly 8 characters, each one of 0..9
C1_IsEightDigits(s) ==
    /\ Len(s) = 8
    /\ \A i \in 1..Len(s) : s[i] \in {"0", "1", "2", "3", "4", "5", "6", "7", "8", "9"}

\* C1: once the checks have run on an identifier that is not exactly 8
\* digits, the call has ended with the error that names the library ID, and
\* no request has been issued.
C1_BadIdFailsBeforeNetwork ==
    (pc # "validate" /\ ~C1_IsEightDigits(libraryId)) =>
        /\ pc = "done"
        /\ result = Thrown(ErrIdFormat)
        /\ caughtError = NoError
        /\ trace = <<>>

\* C1 witness: 8 digits followed by a line break have been rejected
C1_Witness ==
    /\ pc = "done"
    /\ libraryId = ValidId \o <<"\n">>
    /\ result = Thrown(ErrIdFormat)

\* the secret has been rejected by the secret check
C2_SecretRejected == result.error \in {ErrPwLength, ErrPwFormat}

\* C2: with a valid identifier, the secret is rejected, before any request,
\* exactly when its length is below 4 or above 20.
C2_SecretCheckIsLengthOnly ==
    (pc # "validate" /\ C1_IsEightDigits(libraryId)) =>
        /\ C2_SecretRejected <=>
              (Len(libraryPassword) < 4 \/ Len(libraryPassword) > 20)
        /\ C2_SecretRejected => (trace = <<>> /\ pc = "done")

\* an event of the run that is a request, not a delay
IsRequest(e) == e.method # "delay"

\* the places in the run of the requests issued at a site of the code
SiteIdx(site) == {i \in 1..Len(trace) : trace[i].site = site}

MinOf(S) == CHOOSE x \in S : \A y \in S : x <= y

MaxOf(S) == CHOOSE x \in S : \A y \in S : y <= x

\* the Cookie header holds exactly the name=value pairs of the Set-Cookie
CarriesCookiesOf(cookie, setCookie) ==
    /\ Len(cookie) = Len(setCookie)
    /\ \A k \in 1..Len(cookie) :
          /\ cookie[k].name = setCookie[k].name
          /\ cookie[k].value = setCookie[k].value

HasMarker(body) ==
    ~body.empty /\ ("logout" \in body.toks \/ "riyoshokai" \in body.toks)

ShowsLoginForm(body) == ~body.empty /\ "login" \in body.toks

\* two login POSTs: the first answered without Set-Cookie by a page that
\* still shows the login form and no marker, the second with Set-Cookie by
\* a page with an authenticated marker
C3_Case ==
    /\ variant = "part_000"
    /\ Cardinality(SiteIdx("login")) = 2
    /\ LET first == trace[MinOf(SiteIdx("login"))]
           second == trace[MaxOf(SiteIdx("login"))]
       IN  /\ first.setCookie = <<>>
           /\ ShowsLoginForm(first.body)
           /\ ~HasMarker(first.body)
           /\ second.setCookie # <<>>
           /\ HasMarker(second.body)

C3_NegotiationSucceeded ==
    /\ loginSuccess
    /\ pc \in {"afterlogin", "booklist", "done"}
    /\ caughtError \notin {ErrLoginFailedTimes, ErrLoginExhausted, ErrLoginNoCookie}

\* C3 as stated: in that case negotiation succeeds and every later request
\* carries the cookies of the second attempt's response.
C3_EveryLaterRequestCarriesAttempt2 ==
    C3_Case =>
        /\ C3_NegotiationSucceeded
        /\ \A i \in 1..Len(trace) :
              (i > MaxOf(SiteIdx("login")) /\ IsRequest(trace[i])) =>
                  CarriesCookiesOf(trace[i].cookie,
                                   trace[MaxOf(SiteIdx("login"))].setCookie)

\* C3 amended: in that case negotiation succeeds, the post-login page
\* request carries the cookies of the second attempt's response, and the
\* listing request carries them too unless the post-login page's response had
\* Set-Cookie, whose cookies it then carries instead.
C3_LaterRequestsCarryAttempt2OrRefresh ==
    C3_Case =>
        /\ C3_NegotiationSucceeded
        /\ \A i \in SiteIdx("afterlogin") :
              CarriesCookiesOf(trace[i].cookie,
                               trace[MaxOf(SiteIdx("login"))].setCookie)
        /\ \A i \in SiteIdx("booklist") : \A a \in SiteIdx("afterlogin") :
              IF trace[a].setCookie # <<>>
              THEN CarriesCookiesOf(trace[i].cookie, trace[a].setCookie)
              ELSE CarriesCookiesOf(trace[i].cookie,
                                    trace[MaxOf(SiteIdx("login"))].setCookie)
        /\ \A i \in 1..Len(trace) :
              (i > MaxOf(SiteIdx("login")) /\ IsRequest(trace[i])) =>
                  trace[i].site \in {"afterlogin", "booklist"}

\* C3 witness: the case, with the listing requested after a post-login page
\* that did not refresh the cookies
C3_Witness ==
    /\ C3_Case
    /\ SiteIdx("booklist") # {}
    /\ \A a \in SiteIdx("afterlogin") : trace[a].setCookie = <<>>

C5_SuccessNeedsMarkerAndNoForm ==
    (variant = "part_000" /\ Cardinality(SiteIdx("login")) = 1 /\ loginSuccess) =>
        \A i \in SiteIdx("login") :
            HasMarker(trace[i].body) /\ ~ShowsLoginForm(trace[i].body)

\* the value a response before the i-th event last set for a cookie name
LatestValue(i, name) ==
    LET setters == {j \in 1..(i - 1) :
                      \E k \in 1..Len(trace[j].setCookie) :
                          trace[j].setCookie[k].name = name}
        j == MaxOf(setters)
        k == MaxOf({k \in 1..Len(trace[j].setCookie) :
                      trace[j].setCookie[k].name = name})
    IN  trace[j].setCookie[k].value

\* C6: in part_000 every request carries each cookie name set by an earlier
\* response, once, with the value set last.
C6_CookiesAccumulate ==
    \A i \in 1..Len(trace) : (variant = "part_000" /\ IsRequest(trace[i])) =>
        /\ \A j \in 1..(i - 1) : \A k \in 1..Len(trace[j].setCookie) :
              \E m \in 1..Len(trace[i].cookie) :
                  /\ trace[i].cookie[m].name = trace[j].setCookie[k].name
                  /\ trace[i].cookie[m].value =
                        LatestValue(i, trace[j].setCookie[k].name)
        /\ \A m, n \in 1..Len(trace[i].cookie) :
              trace[i].cookie[m].name = trace[i].cookie[n].name => m = n

\* C7: the listing request carries at least one cookie, and each cookie it
\* carries was set by an earlier response of the run.
C7_ListingOnlyWithCapturedCookie ==
    \A i \in SiteIdx("booklist") :
        /\ trace[i].cookie # <<>>
        /\ \A m \in 1..Len(trace[i].cookie) :
              \E j \in 1..(i - 1) : \E k \in 1..Len(trace[j].setCookie) :
                  /\ trace[j].setCookie[k].name = trace[i].cookie[m].name
                  /\ trace[j].setCookie[k].value = trace[i].cookie[m].value

\* C7 witness: the listing has been requested in a run of part_000 whose
\* first login response had no Set-Cookie
C7_Witness ==
    /\ variant = "part_000"
    /\ SiteIdx("booklist") # {}
    /\ trace[MinOf(SiteIdx("login"))].setCookie = <<>>

\* the listing response is a timeout page of the portal, by title or body
C8_IsPortalTimeoutPage ==
    /\ bookListHtml # NotFetched
    /\ ("timeout" \in bookListHtml.title \/ "timeout" \in bookListHtml.body)

\* C8: when the listing response is a timeout page, the call fails with the
\* listing-timeout error and no extraction has run.
C8_TimeoutPageFailsWithoutExtraction ==
    C8_IsPortalTimeoutPage =>
        /\ result.status = "thrown"
        /\ caughtError = ErrListingTimeout
        /\ ~ranExtraction

\* C9: a run that ended on login exhaustion or on a detected timeout page
\* hands its caller a failure that keeps that reason.
C9_FailureKeepsReason ==
    (pc = "done" /\
     caughtError \in {ErrLoginFailedTimes, ErrLoginExhausted, ErrListingTimeout}) =>
        /\ result.status = "thrown"
        /\ result.error = caughtError

\* C10: when a listing page that is no timeout page has been received, the
\* call returns a record sequence.
C10_ExtractionNeverFails ==
    (pc = "done" /\ bookListHtml # NotFetched /\ ~C8_IsPortalTimeoutPage) =>
        result.status = "returned"

\* the listing response is a listing page with no loan row: no title
\* fragment, no date fragment, and no timeout wording
C11_ZeroLoanRows ==
    /\ bookListHtml # NotFetched
    /\ "timeout" \notin bookListHtml.title \cup bookListHtml.body
    /\ \A i \in 1..Len(CellsOf(bookListHtml.tables)) :
          /\ CellsOf(bookListHtml.tables)[i].kind \notin {"titleLink", "strong", "link"}
          /\ ~HasDateShape(CellsOf(bookListHtml.tables)[i])

\* C11: for a listing page with no loan row getLibraryBooks returns the
\* empty record list, and the final message of discordReminder is then the
\* waste-collection line alone: no library section, no failure placeholder.
C11_EmptyListingAddsNothing ==
    C11_ZeroLoanRows =>
        /\ result = Returned(<<>>)
        /\ caughtError = NoError
        /\ opc = "finished" =>
              /\ outcome = "completed"
              /\ libraryMessage = Null
              /\ finalMessage = <<GarbageMessage(executionTime)>>

\* C11 witness: discordReminder has finished on a listing whose table has
\* a header row and no data row
C11_Witness ==
    /\ opc = "finished"
    /\ variant = "part_000"
    /\ C11_ZeroLoanRows
    /\ bookListHtml.tables # <<>>

\* C12: in part_000, once the extraction has run, the pattern result was
\* accepted (and the table strategy not attempted) exactly when the title
\* matches and the date matches are equally many and at least one; when
\* it was accepted, the records returned are the pattern's pairs and
\* nothing else.
C12_PatternAcceptedIffCountsMatch ==
    (variant = "part_000" /\ ranExtraction) =>
        LET titles == TitleMatches(bookListHtml)
            dates == DateMatches(bookListHtml)
            countsMatch == Len(titles) = Len(dates) /\ Len(titles) > 0
        IN  /\ strategies = <<"regex">> <=> countsMatch
            /\ strategies = <<"regex", "table">> <=> ~countsMatch
            /\ (countsMatch /\ result.status = "returned") =>
                  /\ Len(result.books) = Len(titles)
                  /\ \A i \in 1..Len(titles) :
                        result.books[i] = Book(titles[i], Parse(dates[i]))

\* C12 witness: the table strategy has run after a pattern result with
\* two titles and one date
C12_Witness ==
    /\ variant = "part_000"
    /\ strategies = <<"regex", "table">>
    /\ Len(TitleMatches(bookListHtml)) = 2
    /\ Len(DateMatches(bookListHtml)) = 1
    /\ result.status = "returned"

\* a row of the page holds a cell with that title and a cell with that date
C13_FoundInOneRow(page, book) ==
    \E r \in 1..Len(RowsOf(page.tables)) :
        LET row == RowsOf(page.tables)[r]
        IN  /\ \E k \in 1..Len(row) :
                  row[k].kind # "date" /\ book.title \in {row[k].raw, row[k].text}
            /\ \E k \in 1..Len(row) :
                  HasDateShape(row[k]) /\ Parse(row[k].date) = book.returnDate

\* C13: every record getLibraryBooks returns has a non-empty title and a
\* valid date, both found in one and the same row of the listing page.
C13_RecordsComeFromOneRow ==
    (result.status = "returned" /\ bookListHtml # NotFetched) =>
        \A i \in 1..Len(result.books) :
            /\ result.books[i].title # ""
            /\ result.books[i].returnDate.valid
            /\ C13_FoundInOneRow(bookListHtml, result.books[i])

\* one table of list class, a header row that names the return-due
\* column, and below it N >= 1 rows, each with one title fragment and, under
\* the return-due header, one nwrap cell with a day of the calendar
C14_WellFormed(page) ==
    /\ Len(page.tables) = 1
    /\ ClassHasList(page.tables[1].cls)
    /\ LET rows == page.tables[1].rows
       IN  /\ Len(rows) >= 2
           /\ \A k \in 1..Len(rows[1]) : IsTh(rows[1][k])
           /\ \E k \in 1..Len(rows[1]) : IsReturnDueDateHeader(rows[1][k])
           /\ \A r \in 2..Len(rows) :
                 /\ Len(rows[r]) = Len(rows[1])
                 /\ \A k \in 1..Len(rows[r]) : IsTd(rows[r][k])
                 /\ Cardinality({k \in 1..Len(rows[r]) : IsTitleMatch(rows[r][k])}) = 1
                 /\ Cardinality({k \in 1..Len(rows[r]) : HasDateShape(rows[r][k])}) = 1
                 /\ \A k \in 1..Len(rows[r]) :
                       HasDateShape(rows[r][k]) =>
                           /\ IsDateMatch(rows[r][k])
                           /\ Parse(rows[r][k].date).valid
                           /\ IsReturnDueDateHeader(rows[1][k])

\* C14: on a well-formed listing page the pattern strategy and the table
\* strategy give the same records in the same order.
C14_StrategiesAgree ==
    (variant = "part_000" /\ bookListHtml # NotFetched /\ C14_WellFormed(bookListHtml)) =>
        /\ RegexAccepted(TitleMatches(bookListHtml), DateMatches(bookListHtml))
        /\ RegexBooks(TitleMatches(bookListHtml), DateMatches(bookListHtml)).books
              = TableBooks("part_000", bookListHtml)

\* the record is due some days of `days` after the reference date, counted
\* by stepping through the calendar day by day
C15_DueAfter(book, days) ==
    \E k \in days : Day(book.returnDate.y, book.returnDate.m, book.returnDate.d)
                        = addDays(baseDate, k)

\* the titles of the records given that are due `days` after the reference
\* date, in the order of the records
C15_TitlesDue(days) ==
    LET IsDue(b) == C15_DueAfter(b, days)
        due == SelectSeq(booksGiven, IsDue)
    IN  [i \in 1..Len(due) |-> due[i].title]

\* the titles a message lists in a bucket, in the order of its lines
C15_TitlesListed(message, bucket) ==
    LET InBucket(l) == l.kind = "title" /\ l.bucket = bucket
        ls == SelectSeq(message.lines, InBucket)
    IN  [i \in 1..Len(ls) |-> ls[i].text]

\* C15: in part_000 the 3-days bucket holds exactly the records due 3 days
\* after the reference date and the due-soon bucket exactly those due on
\* the reference date or the day after; every other record is in no bucket.
C15_BucketsByDaysUntilDue ==
    (opc = "messageDone" /\ variant = "part_000") =>
        /\ C15_TitlesListed(libraryMessage, "3days") = C15_TitlesDue({3})
        /\ C15_TitlesListed(libraryMessage, "1day") = C15_TitlesDue({0, 1})

\* C15 witness: a message with both buckets, from records of which one is
\* due in 2 days and one was due the day before, across the end of February
C15_Witness ==
    /\ opc = "messageDone"
    /\ variant = "part_000"
    /\ baseDate = Day(2024, 2, 27)
    /\ C15_TitlesDue({3}) # <<>>
    /\ C15_TitlesDue({0, 1}) # <<>>
    /\ C15_TitlesDue({2, -1}) # <<>>

\* C16: in index.js the due-soon bucket holds the records due on the
\* reference date as well as those due the day after.
C16_IndexDueSoonIncludesToday ==
    (opc = "messageDone" /\ variant = "index.js") =>
        C15_TitlesListed(libraryMessage, "1day") = C15_TitlesDue({0, 1})

\* C17: in part_000 the result is null exactly when no record is due in
\* 0, 1 or 3 days.
C17_NullIffNothingDue ==
    (opc = "messageDone" /\ variant = "part_000") =>
        (libraryMessage = Null <=> C15_TitlesDue({0, 1, 3}) = <<>>)

\* C17 witness: null for records none of which is due in 0, 1 or 3 days
C17_Witness ==
    /\ opc = "messageDone"
    /\ variant = "part_000"
    /\ libraryMessage = Null
    /\ Len(booksGiven) = 2

\* the places of the lines of a kind and bucket in a message
C18_Places(message, kind, bucket) ==
    {i \in 1..Len(message.lines) :
        message.lines[i].kind = kind /\ message.lines[i].bucket = bucket}

\* C18: in a message that is not null, a bucket with titles has one header,
\* the header's count is the number of its title lines and they follow it
\* directly, the titles are in the order of the records, and the 3-days
\* header comes before the due-soon header.
C18_MessageLayout ==
    (opc = "messageDone" /\ ~libraryMessage.null) =>
        /\ libraryMessage.lines # <<>>
        /\ \A b \in {"3days", "1day"} :
              LET headers == C18_Places(libraryMessage, "header", b)
                  titles == C18_Places(libraryMessage, "title", b)
              IN  /\ Cardinality(headers) <= 1
                  /\ titles # {} => Cardinality(headers) = 1
                  /\ \A h \in headers :
                        /\ libraryMessage.lines[h].count = Cardinality(titles)
                        /\ titles = (h + 1)..(h + Cardinality(titles))
                        /\ titles # {}
        /\ \A h3 \in C18_Places(libraryMessage, "header", "3days") :
              \A h1 \in C18_Places(libraryMessage, "header", "1day") : h3 < h1
        /\ variant = "part_000" =>
              /\ C15_TitlesListed(libraryMessage, "3days") = C15_TitlesDue({3})
              /\ C15_TitlesListed(libraryMessage, "1day") = C15_TitlesDue({0, 1})

\* C18 witness: a message with both sections, the 3-days section listing
\* Book B before Book A as the records do
C18_Witness ==
    /\ opc = "messageDone"
    /\ variant = "part_000"
    /\ C15_TitlesListed(libraryMessage, "3days") = <<"Book B", "Book A">>
    /\ C15_TitlesListed(libraryMessage, "1day") # <<>>

\* C19: when getLibraryBooks has thrown, discordReminder finishes without
\* throwing and its final message is the waste-collection line, an empty
\* line and the library-failure placeholder.
C19_LibraryFailureGivesPlaceholder ==
    (opc = "finished" /\ result.status = "thrown") =>
        /\ outcome = "completed"
        /\ finalMessage =
              <<GarbageMessage(executionTime), BlankLine, PlaceholderLine>>

\* C19 witness: discordReminder has finished after a login exhaustion
C19_Witness ==
    /\ opc = "finished"
    /\ result.status = "thrown"
    /\ caughtError = ErrLoginExhausted

\* the characters of needle stand somewhere in hay, one after the other
C20_Contains(hay, needle) ==
    \E k \in 0..(Len(hay) - Len(needle)) :
        SubSeq(hay, k + 1, k + Len(needle)) = needle

\* C20: no value written to the log holds the whole identifier or the
\* whole secret.
C20_CredentialsNeverLoggedInFull ==
    \A i \in 1..Len(log) : \A k \in 1..Len(log[i].values) :
        /\ ~C20_Contains(log[i].values[k], libraryId)
        /\ ~C20_Contains(log[i].values[k], libraryPassword)

\* C21: every request of a run, the login POST and the listing GET
\* included, goes over HTTPS to the portal host.
C21_AllRequestsToPortalOverHttps ==
    \A i \in 1..Len(trace) :
        IsRequest(trace[i]) =>
            /\ trace[i].url.scheme = "https"
            /\ trace[i].url.host = PortalHost

\* the places in the run of the POSTs that hand a message to the webhook
C22_WebhookPosts ==
    {i \in 1..Len(trace) : trace[i].site = "webhook" /\ trace[i].method = "POST"}

\* C22: a run of discordReminder that has completed without throwing has
\* posted its final message to the webhook exactly once.
C22_CompletedRunDeliveredOnce ==
    (opc = "finished" /\ outcome = "completed") =>
        Cardinality(C22_WebhookPosts) = 1

\* the sites of the requests of the run, in the order they were issued
C23_Sites ==
    LET rs == SelectSeq(trace, IsRequest)
    IN  [i \in 1..Len(rs) |-> rs[i].site]

C23_IsPrefix(s, t) == Len(s) <= Len(t) /\ SubSeq(t, 1, Len(s)) = s

\* C23: in part_000 the requests issued so far are the first ones of the
\* sequence entry page, form page, one or two login POSTs, post-login page,
\* listing; the form page is requested once and the listing at most once;
\* and a request is issued only when the handling of the one before it has
\* brought the run to its step.
C23_RequestsInFixedOrder ==
    variant = "part_000" =>
        /\ \/ C23_IsPrefix(C23_Sites,
                  <<"index", "usermenu", "login", "afterlogin", "booklist">>)
           \/ C23_IsPrefix(C23_Sites,
                  <<"index", "usermenu", "login", "login", "afterlogin", "booklist">>)
        /\ Cardinality(SiteIdx("usermenu")) <= 1
        /\ Cardinality(SiteIdx("booklist")) <= 1
        /\ pc = "index" => C23_Sites = <<>>
        /\ pc = "usermenu" => C23_Sites = <<"index">>
        /\ pc = "login" =>
              C23_Sites \in {<<"index", "usermenu">>, <<"index", "usermenu", "login">>}
        /\ pc = "afterlogin" => C23_Sites[Len(C23_Sites)] = "login"
        /\ pc = "booklist" => C23_Sites[Len(C23_Sites)] = "afterlogin"

\* C23 witness: a run with two login POSTs has fetched the listing and ended
C23_Witness ==
    /\ variant = "part_000"
    /\ pc = "done"
    /\ C23_Sites = <<"index", "usermenu", "login", "login", "afterlogin", "booklist">>

\* C24: in part_000 the event after a first login POST that is followed by
\* a second one is the pacing delay of 3000 ms, and the second POST is the
\* event after that delay, whatever ended the first attempt.
C24_DelayBetweenPosts ==
    variant = "part_000" =>
        \A i, j \in SiteIdx("login") :
            i < j =>
                /\ j = i + 2
                /\ trace[i + 1].method = "delay"
                /\ trace[i + 1].ms = 3000

\* C24 witness: a second POST has followed a first one that was answered
\* with cookies and a page still showing the login form
C24_Witness ==
    /\ variant = "part_000"
    /\ Cardinality(SiteIdx("login")) = 2
    /\ LET first == trace[MinOf(SiteIdx("login"))]
       IN  /\ first.setCookie # <<>>
           /\ ShowsLoginForm(first.body)
           /\ ~HasMarker(first.body)

\* the values a POST body has under a name
C25_ValuesOf(payload, name) ==
    {payload[k].value : k \in {n \in 1..Len(payload) : payload[n].name = name}}

\* the hidden inputs of the form whose action the code reads: the first
\* form of the user menu page
C25_LoginFormHidden ==
    LET page == trace[MinOf(SiteIdx("usermenu"))].forms
    IN  IF page = <<>> THEN <<>> ELSE page[1].hidden

\* C25: in part_000 the body of every login POST has the identifier under
\* userno and the secret under passwd, each other hidden input of the login
\* form under its name with its value, and no further field.
C25_LoginPayloadFaithful ==
    variant = "part_000" =>
        \A i \in SiteIdx("login") :
            LET payload == trace[i].payload
                hidden == C25_LoginFormHidden
            IN  /\ C25_ValuesOf(payload, "userno") = {libraryId}
                /\ C25_ValuesOf(payload, "passwd") = {libraryPassword}
                /\ \A k \in 1..Len(hidden) :
                      hidden[k].name \notin {"userno", "passwd"} =>
                          C25_ValuesOf(payload, hidden[k].name) = {hidden[k].value}
                /\ \A n \in 1..Len(payload) :
                      \/ payload[n].name \in {"userno", "passwd"}
                      \/ \E k \in 1..Len(hidden) : hidden[k].name = payload[n].name

\* the data cells of a row, and the places from the 4th on of those that
\* hold a date-shaped text
C26_LateDatePlaces(row) ==
    LET cells == SelectSeq(row, IsTd)
    IN  {k \in 4..Len(cells) : HasDateShape(cells[k])}

\* the row has no cell under a return-due-date header: no header names the
\* column, or its index is past the row's last data cell
C26_NoDueColumn(bookTable, row) ==
    \/ ReturnDateIdx(bookTable) < 0
    \/ ReturnDateIdx(bookTable) >= Len(SelectSeq(row, IsTd))

\* C26: when structural extraction has returned the records of a table
\* none of whose rows has a cell under a return-due-date header, each
\* record's due date is the first date-shaped text from the 4th data cell
\* on of some row, and there are no more records than rows with such a cell.
C26_DueDateFromFourthCellOn ==
    LET bookTable == BookTable(bookListHtml)
        rows == RowsOf(bookTable)
        late == {r \in 1..Len(rows) : C26_LateDatePlaces(rows[r]) # {}}
    IN  (/\ result.status = "returned"
         /\ strategies # <<>>
         /\ strategies[Len(strategies)] = "table"
         /\ \A r \in 1..Len(rows) : C26_NoDueColumn(bookTable, rows[r])) =>
            /\ \A b \in 1..Len(result.books) :
                  \E r \in late :
                      LET cells == SelectSeq(rows[r], IsTd)
                          k == MinOf(C26_LateDatePlaces(rows[r]))
                      IN  result.books[b].returnDate = Parse(cells[k].date)
            /\ Len(result.books) <= Cardinality(late)

\* C27: in part_000, when the login loop has been left in success, the
\* last POST whose response had a Set-Cookie header, the one the session
\* cookies were taken from, was itself answered with a page classified as
\* success.
C27_SuccessComesFromCookieAttempt ==
    (variant = "part_000" /\ pc = "afterlogin") =>
        LET i == MaxOf({j \in SiteIdx("login") : trace[j].setCookie # <<>>})
        IN  /\ ~trace[i].body.empty
            /\ LoginPageShowsSuccess(trace[i].body.toks)

\* C28: when structural extraction has returned the records of a table
\* without a return-due-date header whose first row has at least 2 data
\* cells, a title, and a date of the calendar from its 4th data cell on,
\* a record with the title of that row is among the records.
C28_FirstDataRowIsEmitted ==
    LET rows == RowsOf(BookTable(bookListHtml))
        cells == SelectSeq(rows[1], IsTd)
    IN  (/\ result.status = "returned"
         /\ strategies # <<>>
         /\ strategies[Len(strategies)] = "table"
         /\ rows # <<>>
         /\ ReturnDateIdx(BookTable(bookListHtml)) < 0
         /\ Len(cells) >= 2
         /\ TitleOfRow(cells) # ""
         /\ \E k \in 4..Len(cells) :
               /\ HasDateShape(cells[k])
               /\ Parse(cells[k].date).valid
               /\ \A j \in 1..(k - 1) : ~HasDateShape(cells[j])) =>
            \E b \in 1..Len(result.books) :
                result.books[b].title = TitleOfRow(cells)

\* the labels written for the n-th Tuesday of a month; the line shows the
\* no-collection word when there is no label
C29_TuesdayLabels(n) ==
    CASE n = 1 -> <<"pet", "pura">>
      [] n = 2 -> <<"moenai">>
      [] n = 3 -> <<"pura">>
      [] n = 4 -> <<"kan">>
      [] OTHER -> <<"arimasen">>

\* C29: when the target date is a Tuesday, the n-th of its month by its day
\* of the month (days 1 to 7 the 1st, 8 to 14 the 2nd, and so on), the
\* labels of the waste-collection line are those of the n-th Tuesday, and
\* a 5th Tuesday has none.
C29_NthTuesdayLabels ==
    opc = "garbageDone" =>
        LET line == finalMessage[1]
            n == ((line.date.d - 1) \div 7) + 1
        IN  getDay(line.date) = 2 => line.labels = C29_TuesdayLabels(n)

\* the login response of index.js holds a JavaScript redirect with a target
\* and nothing that makes the code throw before it reads the redirect
C30_RedirectAnswered(e) ==
    /\ ~e.body.empty
    /\ "redirect" \in e.body.toks
    /\ "errorword" \notin e.body.toks
    /\ "timeout" \notin e.body.toks
    /\ e.setCookie # <<>>

\* C30: in index.js, once the login POST has been answered with a
\* JavaScript redirect and a Set-Cookie header, the run has not failed on the
\* redirect: it is at the listing fetch or beyond it, with the session
\* cookies of that response.
C30_RedirectIsFollowed ==
    variant = "index.js" =>
        \A i \in SiteIdx("login") :
            C30_RedirectAnswered(trace[i]) =>
                /\ caughtError # ErrReference
                /\ CarriesCookiesOf(cookieString, trace[i].setCookie)
                /\ pc = "booklist" \/ SiteIdx("booklist") # {}

====
